---- MODULE Spec2Model ----
(***************************************************************************)
(* Call-session orchestration of the dashcam client (src/src/App.tsx, the  *)
(* first App component of the file, lines 1-431).                          *)
(*                                                                         *)
(* The component is single-threaded and event-driven: every action below   *)
(* is one handler run from its entry (or from the resolution of the await  *)
(* it was suspended on) to its next await or its end.                      *)
(*                                                                         *)
(* Objects are named by small integers.  The capture stream and the peer   *)
(* connection made by the i-th invocation of handleIncomingCall are both   *)
(* named i; the stream made by init() is named INIT_STREAM; a null ref is  *)
(* NULL.                                                                   *)
(***************************************************************************)
EXTENDS Integers, Sequences, FiniteSets, Bags, TLC

\* ---------------------------------------------------------------- bounds
MaxCalls == 2       \* incoming-call / incoming-video-call events delivered
MaxSent == 6        \* outbound socket.emit calls recorded
MaxTimers == 1      \* setTimeout callbacks pending at once
MaxTasks == 1       \* signal handlers suspended on an await at once
MaxTrailer == 3     \* key/value pairs after the type of a candidate line

\* ------------------------------------------------------------- constants
NULL == 0
INIT_STREAM == -1
REACT_APP_DEVICE_ID == "dashcam-001"
Admins == {"X", "Y"}
ErrNames == {"NotAllowedError"}

VARIABLES
    pcRef,           \* pcRef.current: NULL or the name of a peer connection
    localStreamRef,  \* localStreamRef.current: NULL or the name of a stream
    streams,         \* every MediaStream getUserMedia has returned
    pcs,             \* every RTCPeerConnection constructed
    calls,           \* the invocations of handleIncomingCall, in order
    initState,       \* init(): "pending" on its getUserMedia, "ok", "failed"
    status,          \* useState status
    callStatus,      \* useState callStatus
    isCallActive,    \* useState isCallActive
    sent,            \* the socket.emit calls made (a bag)
    timers,          \* pending setTimeout(() => setCallStatus(...), 3000)
    tasks,           \* signal handlers suspended on an await
    connected,       \* the socket is connected
    parseArg,        \* parseIceCandidate called on its own: the argument
    parseRet,        \* and what it returned
    mounted          \* the effect's socket handlers are registered (no cleanup yet)

vars == <<pcRef, localStreamRef, streams, pcs, calls, initState, status,
          callStatus, isCallActive, sent, timers, tasks, connected,
          parseArg, parseRet, mounted>>

\* ------------------------------------------------------------ helpers
CallIds == 1..Len(calls)
PcIds == DOMAIN pcs
StreamIds == DOMAIN streams

kindWord(isVideo) == IF isVideo THEN "video" ELSE "audio"
signalEvent(isVideo) == IF isVideo THEN "webrtc-video-signal" ELSE "webrtc-signal"
\* (mutant) the call-ended notification always goes out on the audio channel.
endedEventAudio(isVideo) == "call-ended"

endedEvent(isVideo) == IF isVideo THEN "video-call-ended" ELSE "call-ended"

\* One socket.emit.  ev, to and data are what goes on the wire; call names the
\* invocation of handleIncomingCall whose closure or peer connection made the
\* emit (NULL: none).
Msg(ev, to, data, call) ==
    [ev |-> ev, to |-> to, data |-> data, call |-> call]

\* socket.emit: sent is the bag of the emits made so far.
emit(log, m) == log (+) SetToBag({m})

\* stopMediaTracks(stream): every track of a non-null stream is stopped.
stopMediaTracks(ss, s) ==
    IF s = NULL THEN ss ELSE [ss EXCEPT ![s].live = FALSE]

\* if (pcRef.current) { pcRef.current.close(); ... }
closePc(ps, p) ==
    IF p = NULL THEN ps
    ELSE [ps EXCEPT ![p].closed = TRUE, ![p].connectionState = "closed",
                    ![p].iceConnectionState = "closed"]

\* ------------------------------------------------------ parseIceCandidate
\* A candidate line is modelled as the sequence of its space-separated tokens.
\* The character classes of the regular expressions are the token sets below.
DigitTokens == {"0", "1", "2", "54321", "2122260223"}
WordTokens == DigitTokens \cup {"udp", "tcp", "host", "srflx", "typ", "sdpMid",
                                "sdpMLineIndex", "ufrag", "audio", "generation"}
FoundationTokens == {"candidate:1", "candidate:842163049"}
parseInt == [t \in DigitTokens |->
               CASE t = "0" -> 0 [] t = "1" -> 1 [] t = "2" -> 2
                 [] t = "54321" -> 54321 [] OTHER -> 2122260223]

\* The tokens of s from position i on.
suffix(s, i) == SubSeq(s, i, Len(s))

\* /candidate:(\S+) (\d+) (\w+) (\d+) (\S+) (\d+) typ (\w+)(.*)/ matches with
\* "candidate:" in token i.
matchesAt(line, i) ==
    /\ i + 7 <= Len(line)
    /\ line[i] \in FoundationTokens
    /\ line[i + 1] \in DigitTokens
    /\ line[i + 2] \in WordTokens
    /\ line[i + 3] \in DigitTokens
    /\ line[i + 5] \in DigitTokens
    /\ line[i + 6] = "typ"
    /\ line[i + 7] \in WordTokens

\* rest.match reading capture 0's first token, the key, in place of capture 1.
restMatchKey(rest, key, digitsOnly) ==
    LET hits == {j \in 1..(Len(rest) - 1) :
                    /\ rest[j] = key
                    /\ (digitsOnly => rest[j + 1] \in DigitTokens)}
    IN IF hits = {} THEN <<>>
       ELSE <<rest[CHOOSE j \in hits : \A k \in hits : j <= k]>>

\* rest.match(/<key> (\S+)/)?.[1] (digitsOnly: /<key> (\d+)/): the value after
\* the leftmost occurrence of the key that has one, as a sequence of 0 or 1.
restMatch(rest, key, digitsOnly) ==
    LET hits == {j \in 1..(Len(rest) - 1) :
                    /\ rest[j] = key
                    /\ (digitsOnly => rest[j + 1] \in DigitTokens)}
    IN IF hits = {} THEN <<>>
       ELSE <<rest[(CHOOSE j \in hits : \A k \in hits : j <= k) + 1]>>

orElse(opt, default) == IF opt = <<>> THEN default ELSE opt[1]

\* parseIceCandidate without the grammar: every string becomes a candidate.
parseIceCandidateUnchecked(candidate) ==
    IF candidate.form = "string"
    THEN <<[form |-> "init", candidate |-> candidate.line, sdpMid |-> "0",
            sdpMLineIndex |-> 0, usernameFragment |-> <<>>]>>
    ELSE <<candidate>>

\* parseIceCandidate(candidate): <<>> is null, <<c>> the RTCIceCandidateInit c.
\* A structured candidate is [form |-> "init", ...]; a string is
\* [form |-> "string", line |-> tokens].
parseIceCandidate(candidate) ==
    IF candidate.form = "string"
    THEN LET line == candidate.line
             starts == {i \in 1..Len(line) : matchesAt(line, i)}
         IN IF starts = {} THEN <<>>
            ELSE LET i == CHOOSE k \in starts : \A m \in starts : k <= m
                     rest == suffix(line, i + 8)
                 IN <<[form |-> "init",
                       candidate |-> suffix(line, i),
                       sdpMid |-> orElse(restMatch(rest, "sdpMid", FALSE), "0"),
                       sdpMLineIndex |->
                           parseInt[orElse(restMatch(rest, "sdpMLineIndex", TRUE), "0")],
                       usernameFragment |-> restMatch(rest, "ufrag", FALSE)]>>
    ELSE <<candidate>>

\* The candidates the signaling peer sends.
GoodLine == [form |-> "string",
             line |-> <<"candidate:1", "1", "udp", "2122260223", "10.0.0.2",
                        "54321", "typ", "host", "sdpMid", "audio", "ufrag", "EsAw">>]
BadLine == [form |-> "string", line |-> <<"candidate:1", "1", "udp", "typ", "host">>]
StructCand == [form |-> "init",
               candidate |-> <<"candidate:842163049", "1", "udp", "2122260223",
                               "10.0.0.3", "54321", "typ", "srflx">>,
               sdpMid |-> "0", sdpMLineIndex |-> 0, usernameFragment |-> <<>>]
Candidates == {GoodLine, BadLine, StructCand}

\* ---------------------------------------------------------------- Init
\* The component after its first render, before any effect has run.
InitApp ==
    /\ pcRef = NULL
    /\ localStreamRef = NULL
    /\ streams = <<>>
    /\ pcs = <<>>
    /\ calls = <<>>
    /\ initState = "pending"
    /\ status = "Initializing..."
    /\ callStatus = "Waiting for call..."
    /\ isCallActive = FALSE
    /\ sent = EmptyBag
    /\ timers = 0
    /\ tasks = <<>>
    /\ connected = FALSE
    /\ mounted = TRUE

\* parseIceCandidate is not being called on its own.
NotCalled == [called |-> FALSE, result |-> <<>>]

Init ==
    /\ InitApp
    /\ parseArg = [candidate |-> StructCand, wellFormed |-> TRUE, pairs |-> <<>>]
    /\ parseRet = NotCalled

\* ------------------------------------------------------------- init()
\* init(): getUserMedia resolves.
initResolve ==
    /\ initState = "pending"
    /\ initState' = "ok"
    /\ streams' = streams @@ (INIT_STREAM :> [live |-> TRUE, video |-> FALSE])
    /\ localStreamRef' = INIT_STREAM
    /\ status' = "Microphone access granted"
    /\ UNCHANGED <<pcRef, pcs, calls, callStatus, isCallActive, sent, timers,
                   tasks, connected,
                   parseArg, parseRet, mounted>>

\* init(): getUserMedia rejects.
initReject ==
    /\ initState = "pending"
    /\ \E err \in ErrNames :
          status' = "Microphone error: " \o err
    /\ initState' = "failed"
    /\ UNCHANGED <<pcRef, localStreamRef, streams, pcs, calls, callStatus,
                   isCallActive, sent, timers, tasks, connected,
                   parseArg, parseRet, mounted>>

\* -------------------------------------------------- handleIncomingCall
\* socket.on("incoming-call") / socket.on("incoming-video-call"): the
\* synchronous part of handleIncomingCall, up to the await of getUserMedia.
handleIncomingCall(adminSocketId, isVideo) ==
    /\ mounted
    /\ Len(calls) < MaxCalls
    /\ callStatus' = "Incoming " \o kindWord(isVideo) \o " call - Setting up connection..."
    /\ isCallActive' = TRUE
    /\ streams' = stopMediaTracks(streams, localStreamRef)
    /\ localStreamRef' = NULL
    /\ calls' = Append(calls, [adminSocketId |-> adminSocketId,
                               isVideo |-> isVideo,
                               gum |-> "pending",
                               gumCalls |-> 1,
                               endedAt |-> "none"])
    /\ UNCHANGED <<pcRef, pcs, initState, status, sent, timers, tasks, connected,
                   parseArg, parseRet, mounted>>

\* new RTCPeerConnection(...) with the tracks of the stream and the callbacks of
\* call c.  wasConnected records that connectionState has been "connected";
\* remoteAudio is what became of the inbound audio track: "none" before it
\* arrives, then "playing" (assigned to the audio element), "stopped" or
\* "unrouted" (left alone).
NewPc(c) ==
    [isVideo |-> calls[c].isVideo,
     adminSocketId |-> calls[c].adminSocketId,
     closed |-> FALSE,
     remoteDescription |-> FALSE,
     localDescription |-> FALSE,
     connectionState |-> "new",
     iceConnectionState |-> "new",
     wasConnected |-> FALSE,
     tracks |-> c,
     added |-> {},
     remoteAudio |-> "none"]

\* (mutant) the previous peer connection is left open.
closePreviousSkipped(ps, p) == ps

\* The close of the previous peer connection before a new one is constructed.
closePrevious(ps, p) == closePc(ps, p)

\* handleIncomingCall resumed: getUserMedia of call c resolved.
gumResolve(c) ==
    /\ c \in CallIds
    /\ calls[c].gum = "pending"
    /\ BagCardinality(sent) < MaxSent
    /\ calls' = [calls EXCEPT ![c].gum = "ok"]
    /\ streams' = streams @@ (c :> [live |-> TRUE, video |-> calls[c].isVideo])
    /\ localStreamRef' = c
    /\ pcs' = closePrevious(pcs, pcRef) @@ (c :> NewPc(c))
    /\ pcRef' = c
    /\ sent' = emit(sent, Msg(signalEvent(calls[c].isVideo),
                              calls[c].adminSocketId, "ready", c))
    /\ callStatus' = "Ready - Waiting for " \o kindWord(calls[c].isVideo) \o " offer..."
    /\ UNCHANGED <<initState, status, isCallActive, timers, tasks, connected,
                   parseArg, parseRet, mounted>>

\* handleIncomingCall resumed: getUserMedia of call c rejected.
gumReject(c) ==
    /\ c \in CallIds
    /\ calls[c].gum = "pending"
    /\ BagCardinality(sent) < MaxSent
    /\ calls' = [calls EXCEPT ![c].gum = "failed"]
    /\ \E err \in ErrNames :
          callStatus' = "Media error: " \o err
    /\ isCallActive' = FALSE
    /\ sent' = emit(sent, Msg(endedEvent(calls[c].isVideo),
                              calls[c].adminSocketId, "none", c))
    /\ UNCHANGED <<pcRef, localStreamRef, streams, pcs, initState, status,
                   timers, tasks, connected,
                   parseArg, parseRet, mounted>>

\* ------------------------------------------------------------ call-ended
\* (mutant) the call-ended handler notifies the peer back.
onCallEndedEcho(isVideo) ==
    /\ timers < MaxTimers
    /\ BagCardinality(sent) < MaxSent
    /\ pcs' = closePc(pcs, pcRef)
    /\ pcRef' = NULL
    /\ streams' = stopMediaTracks(streams, localStreamRef)
    /\ localStreamRef' = NULL
    /\ callStatus' = IF isVideo THEN "Video call ended" ELSE "Audio call ended"
    /\ isCallActive' = FALSE
    /\ timers' = timers + 1
    /\ sent' = emit(sent, Msg(endedEvent(isVideo), "X", "none", NULL))
    /\ calls' = [c \in CallIds |->
                   IF calls[c].isVideo = isVideo /\ calls[c].endedAt = "none"
                   THEN [calls[c] EXCEPT !.endedAt = calls[c].gum]
                   ELSE calls[c]]
    /\ UNCHANGED <<initState, status, tasks, connected,
                   parseArg, parseRet, mounted>>

\* socket.on("call-ended") (isVideo = FALSE) and socket.on("video-call-ended").
\* endedAt records, for each call of this channel that has not seen a call-ended
\* yet, where its media acquisition stood when this one was handled.
onCallEnded(isVideo) ==
    /\ mounted
    /\ timers < MaxTimers
    /\ pcs' = closePc(pcs, pcRef)
    /\ pcRef' = NULL
    /\ streams' = stopMediaTracks(streams, localStreamRef)
    /\ localStreamRef' = NULL
    /\ callStatus' = IF isVideo THEN "Video call ended" ELSE "Audio call ended"
    /\ isCallActive' = FALSE
    /\ timers' = timers + 1
    /\ calls' = [c \in CallIds |->
                   IF calls[c].isVideo = isVideo /\ calls[c].endedAt = "none"
                   THEN [calls[c] EXCEPT !.endedAt = calls[c].gum]
                   ELSE calls[c]]
    /\ UNCHANGED <<initState, status, sent, tasks, connected,
                   parseArg, parseRet, mounted>>

\* The setTimeout callback of a call-ended handler fires.
timerFire ==
    /\ timers > 0
    /\ timers' = timers - 1
    /\ callStatus' = "Waiting for call..."
    /\ UNCHANGED <<pcRef, localStreamRef, streams, pcs, calls, initState, status,
                   isCallActive, sent, tasks, connected,
                   parseArg, parseRet, mounted>>

\* ------------------------------------------------------- webrtc-signal
remove(s, t) == SubSeq(s, 1, t - 1) \o SubSeq(s, t + 1, Len(s))

signalError(isVideo) == IF isVideo THEN "WebRTC video error" ELSE "WebRTC error"

\* The offer branch with no "if (!pc) return": the Offer is kept for later.
offerResultQueued(isVideo, from) ==
    Append(tasks, [pc |-> pcRef, isVideo |-> isVideo, from |-> from,
                   at |-> "setRemoteDescription"])

\* What the handler of a signal with data.type === "offer" leaves in the list
\* of suspended handlers, the only state it writes before its first await:
\* const pc = pcRef.current; if (!pc) return; ... await pc.setRemoteDescription.
offerResult(isVideo, from) ==
    IF pcRef = NULL
    THEN tasks
    ELSE Append(tasks, [pc |-> pcRef, isVideo |-> isVideo, from |-> from,
                        at |-> "setRemoteDescription"])

\* socket.on("webrtc-signal") (isVideo = FALSE) / socket.on("webrtc-video-signal")
\* with data.type === "offer": up to the await of setRemoteDescription.
onSignalOffer(isVideo, from) ==
    /\ mounted
    /\ Len(tasks) < MaxTasks
    /\ tasks' = offerResult(isVideo, from)
    /\ UNCHANGED <<pcRef, localStreamRef, streams, pcs, calls, initState,
                   status, callStatus, isCallActive, sent, timers, connected,
                   parseArg, parseRet, mounted>>

\* The offer handler emitting its answer as soon as createAnswer resolves,
\* before setLocalDescription.
offerStepAnswerEarly(t) ==
    /\ t \in 1..Len(tasks)
    /\ ~pcs[tasks[t].pc].closed
    /\ LET k == tasks[t] IN
       CASE k.at = "setRemoteDescription" ->
              /\ pcs' = [pcs EXCEPT ![k.pc].remoteDescription = TRUE]
              /\ tasks' = [tasks EXCEPT ![t].at = "createAnswer"]
              /\ UNCHANGED <<callStatus, sent>>
         [] k.at = "createAnswer" ->
              /\ BagCardinality(sent) < MaxSent
              /\ sent' = emit(sent, Msg(signalEvent(k.isVideo), k.from, "answer",
                                        k.pc))
              /\ tasks' = [tasks EXCEPT ![t].at = "setLocalDescription"]
              /\ UNCHANGED <<pcs, callStatus>>
         [] OTHER ->
              /\ pcs' = [pcs EXCEPT ![k.pc].localDescription = TRUE]
              /\ callStatus' = "Answer sent - Establishing "
                                  \o kindWord(k.isVideo) \o " connection..."
              /\ tasks' = remove(tasks, t)
              /\ UNCHANGED sent
    /\ UNCHANGED <<pcRef, localStreamRef, streams, calls, initState, status,
                   isCallActive, timers, connected,
                   parseArg, parseRet, mounted>>

\* The offer handler resumed: the awaited operation of task t resolved.  After
\* setLocalDescription the answer is emitted to the sender of the offer.
offerStep(t) ==
    /\ t \in 1..Len(tasks)
    /\ ~pcs[tasks[t].pc].closed
    /\ LET k == tasks[t] IN
       CASE k.at = "setRemoteDescription" ->
              /\ pcs' = [pcs EXCEPT ![k.pc].remoteDescription = TRUE]
              /\ tasks' = [tasks EXCEPT ![t].at = "createAnswer"]
              /\ UNCHANGED <<callStatus, sent>>
         [] k.at = "createAnswer" ->
              /\ tasks' = [tasks EXCEPT ![t].at = "setLocalDescription"]
              /\ UNCHANGED <<pcs, callStatus, sent>>
         [] OTHER ->
              /\ BagCardinality(sent) < MaxSent
              /\ pcs' = [pcs EXCEPT ![k.pc].localDescription = TRUE]
              /\ sent' = emit(sent, Msg(signalEvent(k.isVideo), k.from, "answer",
                                        k.pc))
              /\ callStatus' = "Answer sent - Establishing "
                                  \o kindWord(k.isVideo) \o " connection..."
              /\ tasks' = remove(tasks, t)
    /\ UNCHANGED <<pcRef, localStreamRef, streams, calls, initState, status,
                   isCallActive, timers, connected,
                   parseArg, parseRet, mounted>>

\* The offer handler resumed: the awaited operation of task t rejected (a
\* malformed or out-of-order description, or a closed connection): the catch.
offerReject(t) ==
    /\ t \in 1..Len(tasks)
    /\ callStatus' = signalError(tasks[t].isVideo)
    /\ tasks' = remove(tasks, t)
    /\ UNCHANGED <<pcRef, localStreamRef, streams, pcs, calls, initState, status,
                   isCallActive, sent, timers, connected,
                   parseArg, parseRet, mounted>>

\* The peer connection a signal handler works on.
signalTarget(isVideo) == pcRef

\* The condition of lines 289 / 321, without the check of the remote
\* description.
canAddEarly(parsed, pc) == parsed # <<>>

\* if (candidate && pc.remoteDescription), lines 289 / 321.
canAdd(parsed, pc) == parsed # <<>> /\ pcs[pc].remoteDescription

\* What the handler of a signal with data.candidate set leaves in pcs and
\* callStatus, the only state it writes.  ok: addIceCandidate resolves (else it
\* rejects: the catch).  Each added candidate is tagged with the channel it
\* arrived on.
candidateResult(isVideo, candidate, ok) ==
    LET pc == signalTarget(isVideo)
        parsed == parseIceCandidate(candidate)
        same == [pcs |-> pcs, callStatus |-> callStatus]
    IN IF pc = NULL
       THEN same
       ELSE IF canAdd(parsed, pc)
       THEN IF ok /\ ~pcs[pc].closed
            THEN [pcs |-> [pcs EXCEPT ![pc].added =
                              @ \cup {[c |-> parsed[1], isVideo |-> isVideo]}],
                  callStatus |-> callStatus]
            ELSE [pcs |-> pcs, callStatus |-> signalError(isVideo)]
       ELSE same

\* socket.on("webrtc-signal") / socket.on("webrtc-video-signal") with
\* data.candidate set.
onSignalCandidate(isVideo, candidate, ok) ==
    LET r == candidateResult(isVideo, candidate, ok)
    IN /\ mounted
       /\ pcs' = r.pcs
       /\ callStatus' = r.callStatus
       /\ UNCHANGED <<pcRef, localStreamRef, streams, calls, initState, status,
                      isCallActive, sent, timers, tasks, connected,
                   parseArg, parseRet, mounted>>

\* -------------------------------------------- peer connection callbacks
OpenPcs == {p \in PcIds : ~pcs[p].closed}

\* pc.onicecandidate without "if (event.candidate)": the end-of-candidates
\* event is forwarded too.
localCandidateResultUnchecked(p, hasCandidate) ==
    emit(sent, Msg(signalEvent(calls[p].isVideo), calls[p].adminSocketId,
                   "candidate", p))

\* What pc.onicecandidate of the connection of call p leaves in the emit log,
\* the only state it writes; hasCandidate is FALSE for the end-of-candidates
\* event (event.candidate is null).
localCandidateResult(p, hasCandidate) ==
    IF hasCandidate
    THEN emit(sent, Msg(signalEvent(calls[p].isVideo), calls[p].adminSocketId,
                        "candidate", p))
    ELSE sent

\* pc.onicecandidate of the connection of call p: the engine gathers once the
\* local description is set, and a closed connection fires nothing.
onicecandidate(p, hasCandidate) ==
    /\ p \in OpenPcs
    /\ pcs[p].localDescription
    /\ hasCandidate => BagCardinality(sent) < MaxSent
    /\ sent' = localCandidateResult(p, hasCandidate)
    /\ UNCHANGED <<pcRef, localStreamRef, streams, pcs, calls, initState,
                   status, callStatus, isCallActive, timers, tasks, connected,
                   parseArg, parseRet, mounted>>

\* callStatus.includes("video"), over the statuses the component sets: the
\* search is case-sensitive, so "Video and audio active" and "Video call ended"
\* do not include it.
includesVideo(s) ==
    s \in {"Incoming video call - Setting up connection...",
           "Ready - Waiting for video offer...",
           "Answer sent - Establishing video connection...",
           "WebRTC video error"}

\* remoteAudioRef.current is the <audio> element, which is rendered when
\* isCallActive && !callStatus.includes("video") (line 410).
remoteAudioRendered == isCallActive /\ ~includesVideo(callStatus)

\* The first condition of pc.ontrack without the check of the call type.
routedToPlaybackAnyCall(kind, isVideo) == kind = "audio" /\ remoteAudioRendered

\* event.track.kind === "audio" && remoteAudioRef.current && !isVideo
routedToPlayback(kind, isVideo) ==
    kind = "audio" /\ remoteAudioRendered /\ ~isVideo

\* pc.ontrack of the connection of call p, which fires for the tracks of the
\* remote description; one audio track per connection.  playOk: play() resolves.
ontrack(p, kind, playOk) ==
    /\ p \in OpenPcs
    /\ pcs[p].remoteDescription
    /\ pcs[p].remoteAudio = "none"
    /\ IF routedToPlayback(kind, calls[p].isVideo)
       THEN /\ pcs' = [pcs EXCEPT ![p].remoteAudio = "playing"]
            /\ callStatus' = IF playOk THEN callStatus
                             ELSE "Audio play error: NotAllowedError"
            /\ UNCHANGED <<pcRef, localStreamRef, streams, calls, initState,
                           status, isCallActive, sent, timers, tasks, connected,
                   parseArg, parseRet, mounted>>
       ELSE IF kind = "audio"
       THEN /\ pcs' = [pcs EXCEPT ![p].remoteAudio =
                         IF calls[p].isVideo THEN "stopped" ELSE "unrouted"]
            /\ UNCHANGED <<pcRef, localStreamRef, streams, calls, initState,
                           status, callStatus, isCallActive, sent, timers, tasks,
                           connected,
                   parseArg, parseRet, mounted>>
       ELSE UNCHANGED vars

\* What a callback can change: the two useState values and the emit log.
Ui == [callStatus |-> callStatus, isCallActive |-> isCallActive, sent |-> sent]

\* pc.oniceconnectionstatechange of the connection of call p, with
\* pc.iceConnectionState = s.
oniceconnectionstatechange(ui, p, s) ==
    IF s \in {"failed", "disconnected"}
    THEN [callStatus |-> "ICE connection failed",
          isCallActive |-> FALSE,
          sent |-> emit(ui.sent, Msg(endedEvent(calls[p].isVideo),
                                     calls[p].adminSocketId, "none", p))]
    ELSE ui

\* (mutant) the status of a connected call does not depend on the call type.
activeStatusAudio(isVideo) == "Audio active"

\* `${isVideo ? "Video and audio" : "Audio"} active`
activeStatus(isVideo) ==
    (IF isVideo THEN "Video and audio" ELSE "Audio") \o " active"

\* pc.onconnectionstatechange of the connection of call p, with
\* pc.connectionState = s.
onconnectionstatechange(ui, p, s) ==
    CASE s = "connected" ->
           [ui EXCEPT !.callStatus = activeStatus(calls[p].isVideo)]
      [] s = "failed" ->
           [callStatus |-> "Connection failed",
            isCallActive |-> FALSE,
            sent |-> emit(ui.sent, Msg(endedEvent(calls[p].isVideo),
                                       calls[p].adminSocketId, "none", p))]
      [] s = "disconnected" ->
           [callStatus |-> "Disconnected",
            isCallActive |-> FALSE,
            sent |-> emit(ui.sent, Msg(endedEvent(calls[p].isVideo),
                                       calls[p].adminSocketId, "none", p))]
      [] OTHER ->
           [ui EXCEPT !.callStatus = "Connecting... (" \o s \o ")"]

\* The state changes the engine reports for an open connection, as pairs
\* <<iceConnectionState, connectionState>>.  The engine updates both states in
\* one task and fires iceconnectionstatechange, then connectionstatechange, for
\* each one that changed.  ICE connects before DTLS does; there is no ICE
\* restart; close() fires no event.
EngineNext(ice, conn) ==
    CASE ice = "new" -> {<<"checking", "connecting">>}
      [] ice = "checking" -> {<<"connected", "connecting">>, <<"failed", "failed">>}
      [] ice = "connected" /\ conn = "connecting" ->
           {<<"connected", "connected">>, <<"disconnected", "disconnected">>}
      [] ice = "connected" /\ conn = "connected" ->
           {<<"disconnected", "disconnected">>}
      [] ice = "disconnected" ->
           {<<"connected", "connected">>, <<"failed", "failed">>}
      [] OTHER -> {}

\* One engine task on the connection of call p: the states move to e and the
\* callbacks of the changed states run, ICE first.
engineStateChange(p, e) ==
    /\ p \in OpenPcs
    /\ pcs[p].remoteDescription /\ pcs[p].localDescription
    /\ e \in EngineNext(pcs[p].iceConnectionState, pcs[p].connectionState)
    /\ LET iceChanged == e[1] # pcs[p].iceConnectionState
           connChanged == e[2] # pcs[p].connectionState
           ui1 == IF iceChanged THEN oniceconnectionstatechange(Ui, p, e[1]) ELSE Ui
           ui2 == IF connChanged THEN onconnectionstatechange(ui1, p, e[2]) ELSE ui1
       IN /\ BagCardinality(ui2.sent) <= MaxSent
          /\ callStatus' = ui2.callStatus
          /\ isCallActive' = ui2.isCallActive
          /\ sent' = ui2.sent
    /\ pcs' = [pcs EXCEPT ![p].iceConnectionState = e[1],
                          ![p].connectionState = e[2],
                          ![p].wasConnected = @ \/ e[2] = "connected"]
    /\ UNCHANGED <<pcRef, localStreamRef, streams, calls, initState, status,
                   timers, tasks, connected,
                   parseArg, parseRet, mounted>>

EngineStates ==
    {<<"checking", "connecting">>, <<"connected", "connecting">>,
     <<"connected", "connected">>, <<"disconnected", "disconnected">>,
     <<"failed", "failed">>}

\* -------------------------------------------------------------- unmount
\* The cleanup returned by the effect: every socket handler is removed (the
\* handlers above are enabled only while mounted), pcRef is closed and the tracks
\* of localStreamRef are stopped.  Nothing cancels a pending getUserMedia, a
\* suspended signal handler or a timer.
unmount ==
    /\ mounted
    /\ mounted' = FALSE
    /\ pcs' = closePc(pcs, pcRef)
    /\ pcRef' = NULL
    /\ streams' = stopMediaTracks(streams, localStreamRef)
    /\ localStreamRef' = NULL
    /\ UNCHANGED <<calls, initState, status, callStatus, isCallActive, sent,
                   timers, tasks, connected,
                   parseArg, parseRet>>

\* ------------------------------------------------------------ transport
\* err.message of a connect_error.
ConnectErrors == {"xhr poll error"}

joinEvent(isVideo) == IF isVideo THEN "video-dashcam-join" ELSE "dashcam-join"

\* socket.emit(joinEvent, deviceId): the payload is the device id, there is no
\* addressee and no call.
Join(isVideo) ==
    [ev |-> joinEvent(isVideo), to |-> "", data |-> REACT_APP_DEVICE_ID, call |-> NULL]

\* The announcement with the video channel left out.
announceAudioOnly(log) == emit(log, Join(FALSE))

\* socket.emit("dashcam-join", deviceId); socket.emit("video-dashcam-join",
\* deviceId): lines 80-81 and 94-95.
announce(log) == emit(emit(log, Join(FALSE)), Join(TRUE))

\* socket.on("connect"): fired by the socket on the first connection and on
\* every reconnection.
onConnect ==
    /\ mounted
    /\ ~connected
    /\ BagCardinality(sent) + 2 <= MaxSent
    /\ connected' = TRUE
    /\ sent' = announce(sent)
    /\ status' = "Connected as " \o REACT_APP_DEVICE_ID
    /\ UNCHANGED <<pcRef, localStreamRef, streams, pcs, calls, initState,
                   callStatus, isCallActive, timers, tasks,
                   parseArg, parseRet, mounted>>

\* socket.on("connect_error").
onConnectError(err) ==
    /\ mounted
    /\ ~connected
    /\ status' = "Socket connection failed: " \o err
    /\ UNCHANGED <<pcRef, localStreamRef, streams, pcs, calls, initState,
                   callStatus, isCallActive, sent, timers, tasks, connected,
                   parseArg, parseRet, mounted>>

\* socket.on("reconnect").  socket/index.ts imports the named export io, which
\* socket.io-client has from version 3 on; from that version the Manager, not the
\* Socket, emits "reconnect", so no specification below delivers this event: a
\* reconnection reaches the component as "connect".
onReconnect ==
    /\ mounted
    /\ connected
    /\ BagCardinality(sent) + 2 <= MaxSent
    /\ status' = "Reconnected to server"
    /\ sent' = announce(sent)
    /\ UNCHANGED <<pcRef, localStreamRef, streams, pcs, calls, initState,
                   callStatus, isCallActive, timers, tasks, connected,
                   parseArg, parseRet, mounted>>

\* A disconnect handler that ends the call as call-ended does.
onDisconnectTeardown ==
    /\ connected
    /\ connected' = FALSE
    /\ status' = "Disconnected from server"
    /\ callStatus' = "Disconnected"
    /\ isCallActive' = FALSE
    /\ pcs' = closePc(pcs, pcRef)
    /\ pcRef' = NULL
    /\ streams' = stopMediaTracks(streams, localStreamRef)
    /\ localStreamRef' = NULL
    /\ UNCHANGED <<calls, initState, sent, timers, tasks,
                   parseArg, parseRet, mounted>>

\* socket.on("disconnect").
onDisconnect ==
    /\ mounted
    /\ connected
    /\ connected' = FALSE
    /\ status' = "Disconnected from server"
    /\ callStatus' = "Disconnected"
    /\ isCallActive' = FALSE
    /\ UNCHANGED <<pcRef, localStreamRef, streams, pcs, calls, initState, sent,
                   timers, tasks,
                   parseArg, parseRet, mounted>>

\* ------------------------------------------------------- specifications
\* The handlers of the call lifecycle.
Lifecycle ==
    \/ \E c \in CallIds : gumResolve(c)
    \/ \E c \in CallIds : gumReject(c)
    \/ \E v \in BOOLEAN : onCallEnded(v)
    \/ timerFire

\* The offer/answer exchange.
Negotiation ==
    \/ \E v \in BOOLEAN, a \in Admins : onSignalOffer(v, a)
    \/ \E t \in 1..Len(tasks) : offerStep(t)
    \/ \E t \in 1..Len(tasks) : offerReject(t)

\* The whole component: every event in every order.  The specifications below
\* restrict the events delivered, not the handlers: each of their behaviours
\* is a behaviour of Spec.
Next ==
    \/ initResolve
    \/ initReject
    \/ \E a \in Admins, v \in BOOLEAN : handleIncomingCall(a, v)
    \/ Lifecycle
    \/ Negotiation
    \/ \E v \in BOOLEAN, c \in Candidates, ok \in BOOLEAN : onSignalCandidate(v, c, ok)
    \/ \E p \in PcIds, h \in BOOLEAN : onicecandidate(p, h)
    \/ \E p \in PcIds, e \in EngineStates : engineStateChange(p, e)
    \/ \E p \in PcIds, kind \in {"audio", "video"}, playOk \in BOOLEAN :
           ontrack(p, kind, playOk)
    \/ onConnect
    \/ \E err \in ConnectErrors : onConnectError(err)
    \/ onDisconnect
    \/ unmount

Spec == Init /\ [][Next]_vars

\* The code never inspects an adminSocketId, so the admins are interchangeable:
\* the first caller is named "X", every later one is any admin.
firstFromX ==
    \E a \in Admins, v \in BOOLEAN :
        /\ calls = <<>> => a = "X"
        /\ handleIncomingCall(a, v)

\* Calls only: up to MaxCalls incoming calls of either type from any admin,
\* overlapping in every way with each other, with init() and with call-ended;
\* no offer is delivered.
NextCalls ==
    \/ initResolve
    \/ initReject
    \/ firstFromX
    \/ Lifecycle

SpecCalls == Init /\ [][NextCalls]_vars

\* One call after init() has settled: a single incoming call of either type
\* from any admin.
oneCall ==
    /\ initState # "pending"
    /\ calls = <<>>
    /\ \E a \in Admins, v \in BOOLEAN : handleIncomingCall(a, v)

\* Offers on either channel from any sender, one at a time, until one has been
\* applied to the current peer connection.
oneOffer ==
    /\ pcRef # NULL => ~pcs[pcRef].remoteDescription
    /\ \A t \in 1..Len(tasks) : tasks[t].pc # pcRef
    /\ \E v \in BOOLEAN, a \in Admins : onSignalOffer(v, a)

\* One session: one call, its offer/answer exchange and the engine's state
\* changes, with call-ended on either channel at any time.
NextSession ==
    \/ initResolve
    \/ initReject
    \/ oneCall
    \/ Lifecycle
    \/ oneOffer
    \/ \E t \in 1..Len(tasks) : offerStep(t)
    \/ \E t \in 1..Len(tasks) : offerReject(t)
    \/ \E p \in PcIds, e \in EngineStates : engineStateChange(p, e)

SpecSession == Init /\ [][NextSession]_vars

\* One session with inbound candidates: one call, its offer/answer exchange and
\* candidates on either channel, with call-ended on either channel at any time.
NextCandidates ==
    \/ initResolve
    \/ initReject
    \/ oneCall
    \/ Lifecycle
    \/ oneOffer
    \/ \E t \in 1..Len(tasks) : offerStep(t)
    \/ \E t \in 1..Len(tasks) : offerReject(t)
    \/ \E v \in BOOLEAN, c \in Candidates, ok \in BOOLEAN : onSignalCandidate(v, c, ok)

SpecCandidates == Init /\ [][NextCandidates]_vars

\* One session with inbound candidates and the engine's state changes: the
\* exchange Ready, Offer, Answer, Candidates, connected, with candidates on
\* either channel and call-ended on either channel at any time.
NextExchange ==
    \/ NextCandidates
    \/ \E p \in PcIds, e \in EngineStates : engineStateChange(p, e)

SpecExchange == Init /\ [][NextExchange]_vars

\* One session over a transport that connects, fails to connect, disconnects
\* and reconnects at any time: the socket delivers its events only while it is
\* connected; media acquisition, the awaits of an Offer, timers and the engine
\* go on without it.
NextTransport ==
    \/ initResolve
    \/ initReject
    \/ onConnect
    \/ \E err \in ConnectErrors : onConnectError(err)
    \/ onDisconnect
    \/ connected /\ oneCall
    \/ \E c \in CallIds : gumResolve(c)
    \/ \E c \in CallIds : gumReject(c)
    \/ connected /\ \E v \in BOOLEAN : onCallEnded(v)
    \/ timerFire
    \/ connected /\ oneOffer
    \/ \E t \in 1..Len(tasks) : offerStep(t)
    \/ \E t \in 1..Len(tasks) : offerReject(t)
    \/ \E p \in PcIds, e \in EngineStates : engineStateChange(p, e)

SpecTransport == Init /\ [][NextTransport]_vars

\* One session with the inbound tracks of its remote description.
NextTracks ==
    \/ NextSession
    \/ \E p \in PcIds, kind \in {"audio", "video"}, playOk \in BOOLEAN :
           ontrack(p, kind, playOk)

SpecTracks == Init /\ [][NextTracks]_vars

\* ------------------------------------------- parseIceCandidate on its own
\* The eight tokens of a line that matches, up to the type.
Core == <<"candidate:1", "1", "udp", "2122260223", "10.0.0.2", "54321", "typ", "host">>

\* Lines the regular expression does not match: tokens missing, no priority,
\* "type" for "typ", a port that is not a number, no "candidate:".
BadCores ==
    {BadLine.line,
     <<"candidate:1", "1", "udp", "10.0.0.2", "54321", "typ", "host">>,
     <<"candidate:1", "1", "udp", "2122260223", "10.0.0.2", "54321", "type", "host">>,
     <<"candidate:1", "1", "udp", "2122260223", "10.0.0.2", "abc", "typ", "host">>,
     <<"1", "1", "udp", "2122260223", "10.0.0.2", "54321", "typ", "host">>}

\* The key/value pairs a line carries after the type.
TrailerPairs ==
    {<<"sdpMid", "audio">>, <<"sdpMid", "1">>, <<"sdpMLineIndex", "1">>,
     <<"sdpMLineIndex", "2">>, <<"ufrag", "EsAw">>, <<"generation", "0">>}

\* The trailers of up to n pairs, in every order, each key at most once.
Trailers(n) ==
    {tr \in UNION {[1..k -> TrailerPairs] : k \in 0..n} :
        \A i, j \in 1..Len(tr) : i # j => tr[i][1] # tr[j][1]}

RECURSIVE flatten(_)
flatten(tr) == IF tr = <<>> THEN <<>> ELSE tr[1] \o flatten(Tail(tr))

\* The arguments parseIceCandidate is called with: each is the candidate, with
\* whether its line follows the grammar and the pairs of its trailer.
ParseCases ==
    {[candidate |-> [form |-> "string", line |-> Core \o flatten(tr)],
      wellFormed |-> TRUE, pairs |-> tr] : tr \in Trailers(MaxTrailer)}
    \cup {[candidate |-> [form |-> "string", line |-> bad \o flatten(tr)],
           wellFormed |-> FALSE, pairs |-> tr] : bad \in BadCores, tr \in Trailers(1)}
    \cup {[candidate |-> c, wellFormed |-> TRUE, pairs |-> <<>>] :
             c \in {StructCand, [StructCand EXCEPT !.usernameFragment = <<"EsAw">>,
                                                   !.sdpMid = "audio"]}}

InitParse ==
    /\ InitApp
    /\ parseArg \in ParseCases
    /\ parseRet = NotCalled

\* const candidate = parseIceCandidate(data.candidate)
callParse ==
    /\ ~parseRet.called
    /\ parseRet' = [called |-> TRUE, result |-> parseIceCandidate(parseArg.candidate)]
    /\ UNCHANGED <<pcRef, localStreamRef, streams, pcs, calls, initState, status,
                   callStatus, isCallActive, sent, timers, tasks, connected,
                   parseArg, mounted>>

SpecParse == InitParse /\ [][callParse]_vars

\* One session with the local candidates its connection gathers.
NextGathering ==
    \/ NextSession
    \/ \E p \in PcIds, h \in BOOLEAN : onicecandidate(p, h)

SpecGathering == Init /\ [][NextGathering]_vars

\* Calls and teardown: NextCalls with the unmount of the component at any time.
NextUnmount ==
    \/ NextCalls
    \/ unmount

SpecUnmount == Init /\ [][NextUnmount]_vars

\* ------------------------------------------------------------ properties
\* The number of emits in log that satisfy Test.
Count(log, Test(_)) ==
    LET S == {m \in BagToSet(log) : Test(m)}
    IN BagCardinality([m \in S |-> log[m]])

LiveStreams == {s \in StreamIds : streams[s].live}

\* C1: every stream that was acquired and is not the one localStreamRef refers
\* to has had its tracks stopped, so no two capture streams are live at once.
C1_OneLiveStream ==
    \A s \in StreamIds : s # localStreamRef => ~streams[s].live

\* C2: every peer connection constructed, except the one pcRef refers to, has
\* been closed: at most one is open, and a new one is constructed only after
\* the previous one was closed.
C2_OnePeerConnection ==
    /\ \A p \in PcIds : p # pcRef => pcs[p].closed
    /\ Cardinality(OpenPcs) <= 1

\* C2 witness: two overlapping calls whose acquisitions completed in the reverse
\* order; the connection of the second was closed for the one of the first.
C2_Witness ==
    /\ PcIds = {1, 2}
    /\ pcRef = 1
    /\ pcs[2].closed /\ ~pcs[1].closed

\* C3: no candidate that arrived on the video channel is added to the peer
\* connection of an audio call.
C3_NoVideoCandidateOnAudio ==
    \A p \in PcIds : ~pcs[p].isVideo => \A a \in pcs[p].added : ~a.isVideo

\* The step is an event of channel v: an incoming call, the completion of the
\* media acquisition of a call of that type, or a call-ended.
ChannelEvent(v) ==
    \/ onCallEnded(v)
    \/ \E a \in Admins : handleIncomingCall(a, v)
    \/ \E c \in CallIds : calls[c].isVideo = v /\ (gumResolve(c) \/ gumReject(c))

\* C4: an event of one channel leaves the session of the other call type
\* alone: it does not close its peer connection, stop the tracks of its stream
\* or replace it in pcRef / localStreamRef.
C4_ChannelsIndependent ==
    [][\A v \in BOOLEAN : ChannelEvent(v) =>
          \A c \in CallIds : calls[c].isVideo # v =>
              /\ (c \in PcIds /\ ~pcs[c].closed) => ~pcs'[c].closed
              /\ (c \in StreamIds /\ streams[c].live) => streams'[c].live
              /\ pcRef = c => pcRef' = c]_vars

\* The call-ended notifications emitted by the callbacks of call c.
EndedOf(log, c) ==
    Count(log, LAMBDA m : m.call = c /\ m.ev = endedEvent(calls[c].isVideo))

\* C5: when a connection that has been connected becomes failed, exactly one
\* call-ended goes out and the status reset of the grace delay is pending.
C5_FailedEndsOnce ==
    [][\A p \in PcIds :
          (/\ pcs[p].wasConnected
           /\ pcs[p].connectionState # "failed"
           /\ pcs'[p].connectionState = "failed")
          => /\ EndedOf(sent', p) = EndedOf(sent, p) + 1
             /\ timers' > 0]_vars

\* C6: after the peer connection reports failed or disconnected, and after a
\* media acquisition failure, no peer connection is open and no track is live.
C6_EndReleases ==
    /\ \A p \in PcIds :
          pcs[p].connectionState \in {"failed", "disconnected"}
          => pcs[p].closed /\ ~streams[pcs[p].tracks].live
    /\ (calls # <<>> /\ calls[Len(calls)].gum = "failed"
        /\ \A c \in CallIds : calls[c].gum # "pending")
          => OpenPcs = {} /\ LiveStreams = {}

ReadyOf(log, c) ==
    Count(log, LAMBDA m : m.call = c /\ m.data = "ready"
                          /\ m.ev = signalEvent(calls[c].isVideo)
                          /\ m.to = calls[c].adminSocketId)

AnswersOf(log, p, isVideo) ==
    Count(log, LAMBDA m : m.call = p /\ m.data = "answer"
                          /\ m.ev = signalEvent(isVideo))

\* C7: when the connection of a video call whose offer came on the video
\* channel becomes connected, the status is "Video and audio active" and one
\* Ready and one Answer have been sent on the video channel; and an Answer is
\* never out before the Ready of its connection.
C7_VideoCallConnects ==
    /\ [][\A p \in PcIds :
            (/\ pcs[p].isVideo
             /\ pcs[p].connectionState # "connected"
             /\ pcs'[p].connectionState = "connected"
             /\ AnswersOf(sent', p, FALSE) = 0)
            => /\ callStatus' = "Video and audio active"
               /\ ReadyOf(sent', p) = 1
               /\ Count(sent', LAMBDA m : m.data = "ready") = 1
               /\ AnswersOf(sent', p, TRUE) = 1
               /\ Count(sent', LAMBDA m : m.data = "answer") = 1]_vars
    /\ [](\A p \in PcIds :
            AnswersOf(sent, p, TRUE) + AnswersOf(sent, p, FALSE) > 0
            => ReadyOf(sent, p) = 1)

\* C7 witness: the video call is connected after a video-channel offer.
C7_Witness ==
    \E p \in PcIds :
        /\ pcs[p].isVideo
        /\ pcs[p].connectionState = "connected"
        /\ AnswersOf(sent, p, TRUE) = 1
        /\ callStatus = "Video and audio active"

\* C8: a failed media acquisition is terminal for its call: one call-ended to
\* the caller on the call's own channel and nothing else from that call, no
\* peer connection for it, one getUserMedia call, and the active-call flag is
\* false when the failure has been handled.
C8_AcquisitionFailureTerminal ==
    /\ [](\A c \in CallIds : calls[c].gum = "failed" =>
            /\ Count(sent, LAMBDA m : m.call = c) = 1
            /\ Count(sent, LAMBDA m : /\ m.call = c
                                      /\ m.ev = (IF calls[c].isVideo
                                                 THEN "video-call-ended"
                                                 ELSE "call-ended")
                                      /\ m.to = calls[c].adminSocketId) = 1
            /\ c \notin PcIds
            /\ c \notin StreamIds
            /\ calls[c].gumCalls = 1)
    /\ [][\A c \in CallIds :
            (calls[c].gum = "pending" /\ calls'[c].gum = "failed")
            => ~isCallActive']_vars

\* C8 witness: a video call and an audio call have both failed to acquire.
C8_Witness ==
    /\ Len(calls) = 2
    /\ calls[1].gum = "failed" /\ calls[2].gum = "failed"
    /\ calls[1].isVideo /\ ~calls[2].isVideo
    /\ ~isCallActive

\* C9: once a call-ended has been handled for every call and everything
\* pending has run, the session is idle: no peer connection is open, no track
\* is live, no call became ready after its call-ended, and the status is back
\* to "Waiting for call...".
C9_EndedReachesIdle ==
    (/\ calls # <<>>
     /\ \A c \in CallIds : calls[c].endedAt # "none" /\ calls[c].gum # "pending"
     /\ initState # "pending"
     /\ timers = 0)
    => /\ OpenPcs = {}
       /\ LiveStreams = {}
       /\ \A c \in CallIds : ~(calls[c].endedAt = "pending" /\ calls[c].gum = "ok")
       /\ callStatus = "Waiting for call..."

\* C10: the step of a call-ended handler (the one that schedules the status
\* reset) emits nothing.
C10_NoEcho ==
    [][timers' = timers + 1 => sent' = sent]_vars

\* C10 witness: a call-ended was handled for a call that had sent its Ready.
C10_Witness ==
    \E c \in CallIds :
        /\ calls[c].endedAt = "ok"
        /\ ReadyOf(sent, c) = 1
        /\ pcs[c].closed
        /\ timers = 1

\* C11: when a second call of the same type arrived while the first was not
\* idle, and both acquisitions have settled with no call-ended seen, the live
\* session is the second caller's: pcRef is the connection of the last call,
\* whose callbacks address the last adminSocketId.
C11_LastInvitationWins ==
    LET n == Len(calls) IN
    (/\ n >= 2
     /\ calls[n].isVideo = calls[n - 1].isVideo
     /\ \A c \in CallIds : calls[c].gum # "pending" /\ calls[c].endedAt = "none"
     /\ calls[n].gum = "ok")
    => /\ pcRef = n
       /\ localStreamRef = n
       /\ pcs[pcRef].adminSocketId = calls[n].adminSocketId

\* The well-formed candidates of Candidates, as RTCIceCandidateInit.
WellFormed == {parseIceCandidate(GoodLine)[1], StructCand}

AppliedOn(p, isVideo) == {a \in pcs[p].added : a.isVideo = isVideo}

\* C12: a malformed candidate is a single non-fatal drop.  In every state the
\* handler, given the malformed line on either channel, leaves the connections
\* and the call status as they are (it writes nothing else); no connection ever
\* holds anything but a well-formed candidate; a well-formed candidate handed to
\* a connection with a remote description is applied, whatever was dropped
\* before; and when the connection of an audio call becomes connected the status
\* is "Audio active", with at most the two well-formed candidates applied from
\* the three of the audio channel.
C12_MalformedCandidateDropped ==
    /\ [](\A v \in BOOLEAN, ok \in BOOLEAN :
            candidateResult(v, BadLine, ok) = [pcs |-> pcs, callStatus |-> callStatus])
    /\ [](\A p \in PcIds : \A a \in pcs[p].added : a.c \in WellFormed)
    /\ [](\A v \in BOOLEAN, c \in {GoodLine, StructCand} :
            (pcRef # NULL /\ pcs[pcRef].remoteDescription /\ ~pcs[pcRef].closed)
            => [c |-> parseIceCandidate(c)[1], isVideo |-> v]
                   \in candidateResult(v, c, TRUE).pcs[pcRef].added)
    /\ [][\A p \in PcIds :
            (/\ ~pcs[p].isVideo
             /\ pcs[p].connectionState # "connected"
             /\ pcs'[p].connectionState = "connected")
            => /\ callStatus' = "Audio active"
               /\ Cardinality(AppliedOn(p, FALSE)) <= 2]_vars

\* C12 witness: an audio call is connected with status "Audio active" and
\* exactly the two well-formed candidates of the audio channel applied.
C12_Witness ==
    \E p \in PcIds :
        /\ ~pcs[p].isVideo
        /\ pcs[p].connectionState = "connected"
        /\ callStatus = "Audio active"
        /\ AppliedOn(p, FALSE) = {[c |-> w, isVideo |-> FALSE] : w \in WellFormed}

\* C13: a candidate that arrives while the live connection has no remote
\* description is dropped and never queued.  In every state where pcRef has no
\* remote description the handler, given any candidate on either channel,
\* leaves everything as it is; a connection without a remote description has
\* no candidate applied; and the applied set of a connection changes only in a
\* step that starts with its remote description set, so the step that applies
\* the Offer adds none.
C13_EarlyCandidateDropped ==
    /\ [](\A v \in BOOLEAN, c \in Candidates, ok \in BOOLEAN :
            (pcRef # NULL /\ ~pcs[pcRef].remoteDescription)
            => candidateResult(v, c, ok) = [pcs |-> pcs, callStatus |-> callStatus])
    /\ [](\A p \in PcIds : ~pcs[p].remoteDescription => pcs[p].added = {})
    /\ [][\A p \in PcIds :
            pcs'[p].added # pcs[p].added => pcs[p].remoteDescription]_vars

\* C13 witness: the Offer has been applied to a live connection that had no
\* remote description while candidates could arrive, and nothing was applied
\* to it from before.
C13_Witness ==
    /\ pcRef # NULL
    /\ ~pcs[pcRef].closed
    /\ pcs[pcRef].remoteDescription
    /\ pcs[pcRef].localDescription
    /\ pcs[pcRef].added = {}

JoinsOf(log, isVideo) == Count(log, LAMBDA m : m = Join(isVideo))

EndedSent(log) == Count(log, LAMBDA m : m.ev \in {"call-ended", "video-call-ended"})

\* C14: a transport disconnect does not tear down the call.  The step in which
\* the socket goes from connected to disconnected, and the step in which it
\* comes back, leave every peer connection (open ones open, a connected one
\* connected), every stream (live tracks live), pcRef, localStreamRef and the
\* suspended Offer as they are and emit no call-ended.
C14_DisconnectKeepsCall ==
    [][(connected' # connected)
       => /\ pcs' = pcs
          /\ pcRef' = pcRef
          /\ streams' = streams
          /\ localStreamRef' = localStreamRef
          /\ tasks' = tasks
          /\ EndedSent(sent') = EndedSent(sent)]_vars

\* C14 witness: the peer connection of the call is still open and connected,
\* with its tracks live, after the transport went down (the status says so)
\* and came back (second announcement).
C14_Witness ==
    /\ connected
    /\ JoinsOf(sent, FALSE) = 2
    /\ callStatus = "Disconnected"
    /\ pcRef # NULL
    /\ ~pcs[pcRef].closed
    /\ pcs[pcRef].connectionState = "connected"
    /\ localStreamRef \in LiveStreams

C16_NoRemoteAudioInVideoCall ==
    /\ [](\A p \in PcIds : pcs[p].isVideo => pcs[p].remoteAudio \in {"none", "stopped"})
    /\ [](\A p \in PcIds : pcs[p].remoteAudio = "playing" => ~calls[p].isVideo)
    /\ [][\A p \in PcIds :
            (pcs[p].isVideo /\ pcs'[p].remoteAudio # pcs[p].remoteAudio)
            => pcs'[p].remoteAudio = "stopped"]_vars

\* C16 witness: the audio track of a video call's connection arrived while the
\* audio element was rendered (the status of a connected video call does not
\* include "video"), and was stopped.
C16_Witness ==
    \E p \in PcIds :
        /\ pcs[p].isVideo
        /\ pcs[p].remoteAudio = "stopped"
        /\ pcs[p].connectionState = "connected"
        /\ remoteAudioRendered

\* C17: a negotiation error ends the call.  The step in which the application
\* of an Offer stops without an Answer (its await rejected) leaves the
\* connection of that Offer closed, no local track live, no current connection
\* and the active-call flag false.
C17_NegotiationErrorEndsCall ==
    [][\A t \in 1..Len(tasks) :
          (tasks' = remove(tasks, t) /\ sent' = sent)
          => /\ pcs'[tasks[t].pc].closed
             /\ LiveStreams' = {}
             /\ pcRef' = NULL
             /\ ~isCallActive']_vars

\* The value of the pair of trailer tr with the given key, as a sequence of 0
\* or 1.
pairValue(tr, key) ==
    LET hits == {i \in 1..Len(tr) : tr[i][1] = key}
    IN IF hits = {} THEN <<>> ELSE <<tr[CHOOSE i \in hits : TRUE][2]>>

NumberOf == ("0" :> 0) @@ ("1" :> 1) @@ ("2" :> 2)

\* C18: parseIceCandidate returns a structured candidate unchanged; for a line
\* that follows the grammar it returns a candidate whose sdpMid is the value of
\* the sdpMid pair or "0" without one, whose sdpMLineIndex is the number of the
\* sdpMLineIndex pair or 0 without one, and whose usernameFragment is the value
\* of the ufrag pair or absent without one, wherever the pairs stand in the
\* trailer; for any other line it returns null.
C18_ParseIceCandidate ==
    parseRet.called =>
        LET c == parseArg.candidate
            tr == parseArg.pairs
            r == parseRet.result
        IN IF c.form = "init" THEN r = <<c>>
           ELSE IF parseArg.wellFormed
           THEN /\ Len(r) = 1
                /\ r[1].sdpMid = orElse(pairValue(tr, "sdpMid"), "0")
                /\ r[1].sdpMLineIndex =
                       NumberOf[orElse(pairValue(tr, "sdpMLineIndex"), "0")]
                /\ r[1].usernameFragment = pairValue(tr, "ufrag")
           ELSE r = <<>>

\* C18 witness: a line with the three pairs in the order ufrag, sdpMLineIndex,
\* sdpMid has been parsed into a candidate with all three values.
C18_Witness ==
    /\ parseRet.called
    /\ parseArg.pairs = <<(<<"ufrag", "EsAw">>), (<<"sdpMLineIndex", "2">>),
                          (<<"sdpMid", "audio">>)>>
    /\ parseRet.result[1].sdpMid = "audio"
    /\ parseRet.result[1].sdpMLineIndex = 2
    /\ parseRet.result[1].usernameFragment = <<"EsAw">>

\* C19: events of one channel take effect in delivery order.  In every state
\* where an Offer delivered on a channel is being applied to the live
\* connection, a well-formed candidate delivered next on that channel is
\* applied to it by the handler.
C19_CandidateAfterOfferApplied ==
    \A v \in BOOLEAN, c \in {GoodLine, StructCand} :
        (/\ pcRef # NULL
         /\ ~pcs[pcRef].closed
         /\ \E t \in 1..Len(tasks) : tasks[t].pc = pcRef /\ tasks[t].isVideo = v)
        => [c |-> parseIceCandidate(c)[1], isVideo |-> v]
               \in candidateResult(v, c, TRUE).pcs[pcRef].added

AnswersTo(log, p) == Count(log, LAMBDA m : m.call = p /\ m.data = "answer")

\* C20: an Offer received when the connection exists without a remote
\* description is applied and answered in order.  The local description is
\* set only after the remote one; an Answer is emitted only in the step in
\* which setLocalDescription resolves for an Offer whose remote description is
\* set, it is the one emit of that step, on the channel the Offer arrived on
\* and to its sender; and a connection has its Answer exactly when it has its
\* local description, never more than one.
C20_OfferAnswered ==
    /\ [][\A p \in PcIds :
            AnswersTo(sent', p) # AnswersTo(sent, p)
            => \E t \in 1..Len(tasks) :
                  /\ tasks[t].pc = p
                  /\ tasks[t].at = "setLocalDescription"
                  /\ pcs[p].remoteDescription
                  /\ pcs'[p].localDescription
                  /\ tasks' = remove(tasks, t)
                  /\ sent' = sent (+) SetToBag({
                         [ev |-> IF tasks[t].isVideo THEN "webrtc-video-signal"
                                 ELSE "webrtc-signal",
                          to |-> tasks[t].from, data |-> "answer", call |-> p]})]_vars
    /\ [](\A p \in PcIds : pcs[p].localDescription => pcs[p].remoteDescription)
    /\ [](\A p \in PcIds :
            AnswersTo(sent, p) = IF pcs[p].localDescription THEN 1 ELSE 0)

\* C20 witness: the Offer of a video call, received on the video channel with
\* no remote description set, has been applied and answered on that channel.
C20_Witness ==
    \E p \in PcIds :
        /\ pcs[p].isVideo
        /\ pcs[p].remoteDescription
        /\ pcs[p].localDescription
        /\ AnswersOf(sent, p, TRUE) = 1
        /\ AnswersTo(sent, p) = 1
        /\ callStatus = "Answer sent - Establishing video connection..."

\* C21: signals that arrive while no peer connection exists are dropped without
\* effect.  In every state with pcRef empty the Offer handler and the Candidate
\* handler, on either channel and for any sender and candidate, leave what they
\* write (the suspended handlers, the connections, the call status) as it is;
\* and the step that creates a peer connection starts no Offer application and
\* creates the connection with no remote description and no candidate applied,
\* so nothing dropped is replayed.
C21_NoPcSignalsDropped ==
    /\ [](pcRef = NULL =>
            /\ \A v \in BOOLEAN, a \in Admins : offerResult(v, a) = tasks
            /\ \A v \in BOOLEAN, c \in Candidates, ok \in BOOLEAN :
                  candidateResult(v, c, ok) = [pcs |-> pcs, callStatus |-> callStatus])
    /\ [][(pcRef' # pcRef /\ pcRef' # NULL)
          => /\ tasks' = tasks
             /\ ~pcs'[pcRef'].remoteDescription
             /\ ~pcs'[pcRef'].localDescription
             /\ pcs'[pcRef'].added = {}
             /\ AnswersTo(sent', pcRef') = 0]_vars

\* C21 witness: the first call is waiting for its media, with no peer
\* connection yet: the state in which an Offer or Candidate finds pcRef empty.
C21_Witness ==
    /\ pcRef = NULL
    /\ pcs = <<>>
    /\ calls # <<>>
    /\ calls[1].gum = "pending"
    /\ isCallActive
    /\ tasks = <<>>
    /\ sent = EmptyBag

\* The outbound Candidate signal of the connection of call p.
LocalCandidate(p) ==
    [ev |-> IF pcs[p].isVideo THEN "webrtc-video-signal" ELSE "webrtc-signal",
     to |-> pcs[p].adminSocketId, data |-> "candidate", call |-> p]

CandidatesFrom(log, p) == Count(log, LAMBDA m : m.call = p /\ m.data = "candidate")

\* C22: each local candidate is forwarded as one outbound Candidate signal on
\* the channel of the call type that created the connection, to that call's
\* adminSocketId, and the end-of-candidates event emits nothing.  In every
\* state, for every open connection, the callback given a candidate adds that
\* one message to the log and given null leaves the log as it is; every step
\* that adds a Candidate signal adds that one message and nothing else, for an
\* open connection; and every Candidate signal in the log is on the channel and
\* to the adminSocketId of the call that created its connection.
C22_LocalCandidatesForwarded ==
    /\ [](\A p \in OpenPcs :
            /\ localCandidateResult(p, FALSE) = sent
            /\ localCandidateResult(p, TRUE) = sent (+) SetToBag({LocalCandidate(p)}))
    /\ [][\A p \in PcIds :
            CandidatesFrom(sent', p) # CandidatesFrom(sent, p)
            => /\ p \in OpenPcs
               /\ sent' = sent (+) SetToBag({LocalCandidate(p)})]_vars
    /\ [](\A m \in BagToSet(sent) :
            m.data = "candidate"
            => /\ m.ev = (IF calls[m.call].isVideo THEN "webrtc-video-signal"
                          ELSE "webrtc-signal")
               /\ m.to = calls[m.call].adminSocketId)

\* C22 witness: the connection of a video call has forwarded two local
\* candidates, each as its own signal.
C22_Witness ==
    \E p \in OpenPcs :
        /\ pcs[p].isVideo
        /\ CandidatesFrom(sent, p) = 2
        /\ sent[LocalCandidate(p)] = 2

\* C23: process teardown releases everything.  In every state after the
\* unmount cleanup has run, no peer connection is open and no local capture
\* track is live.
C23_UnmountReleases ==
    ~mounted => (OpenPcs = {} /\ LiveStreams = {})

\* C24: the delayed status reset of a call-ended never overwrites the status of
\* a newer call.  When the timer fires while the active-call flag is set (an
\* incoming call arrived after the call-ended that scheduled it, and its session
\* has not ended), the call status is not set to "Waiting for call...".
C24_ResetSparesNewerCall ==
    [][(timers' < timers /\ isCallActive)
       => callStatus' # "Waiting for call..."]_vars

\* C25: the active-call flag reflects resource ownership.  In every state
\* where isCallActive is false no peer connection is open and no local capture
\* track is live.
C25_InactiveOwnsNothing ==
    ~isCallActive => (OpenPcs = {} /\ LiveStreams = {})

\* C26: all outbound messages of one session go to one peer.  Every message
\* emitted for a call (its Ready, its Answer, its local Candidates, its
\* call-ended) is addressed to the adminSocketId of the incoming call that
\* created the session.
C26_OnePeerPerSession ==
    \A m \in BagToSet(sent) :
        m.call # NULL => m.to = calls[m.call].adminSocketId
====
